---- MODULE Spec2Model ----
(***************************************************************************)
(* Model of src/app.py: a webhook-driven Zalo bot that builds exam papers. *)
(*                                                                         *)
(* One action, webhook, handles one inbound webhook request from start to  *)
(* end (the Flask handler is synchronous).  The handlers it calls are      *)
(* operators over a "world" record, in the order the code runs them; each  *)
(* returns the world it leaves and whether it raised.                      *)
(*                                                                         *)
(* Texts are sequences of one-character strings, so that lower(),          *)
(* startswith(), split(), isdigit() and int() are computed, not assumed.   *)
(*                                                                         *)
(* Spec is the program handling one webhook request after another.  Three  *)
(* more specifications look at a part of it on its own: SpecCalls at one   *)
(* call of a collaborator wrapper with any answer of the service behind    *)
(* it, SpecStore at the conversation store of the specification, and       *)
(* SpecThreads at two requests handled at the same time, step by step.     *)
(*                                                                         *)
(* The bot token is taken as configured (zalo_bot is an object): without   *)
(* it setup_webhook (line 720) refuses to register the webhook.  The       *)
(* Gemini key may be missing (gemini_exam is None, line 402).              *)
(***************************************************************************)
EXTENDS Integers, Sequences, FiniteSets, TLC

VARIABLES
    exam_sessions,  \* line 406: session_key -> [step, data]
    gemini_exam,    \* line 402: TRUE when GEMINI_API_KEY is set, FALSE for None
    files,          \* temporary PDF files that exist on disk
    last,           \* what the last handled request did (observation)
    flow,           \* history: plain messages since the last bare /create
    call,           \* the last call of a collaborator wrapper, with its result
    history,        \* the conversation store: key -> turns, most recent last
    appends,        \* history: per key, turns appended since its last clear; was it cleared
    threads,        \* requests handled at the same time: where each one is
    started,        \* history: the session table when those requests arrived
    trace           \* history: the steps those requests have taken, in order

vars == <<exam_sessions, gemini_exam, files, last, flow, call,
          history, appends, threads, started, trace>>

\* the parts of the state by the component that owns them
handler_vars == <<gemini_exam, files, last, flow>>
store_vars == <<history, appends>>
thread_vars == <<threads, started, trace>>

(***************************************************************************)
(* Bounds of the model.                                                    *)
(***************************************************************************)
MaxQuestions == 6      \* most questions in a generated exam
MaxFiles == 2          \* temporary file names available
ShortQuestion == 20    \* length of a one-line question
LongQuestion == 300    \* length of a paragraph-long question
ShortOption == 8       \* length of an answer option
MaxResponseLen == 5    \* longest response text of the AI service
MaxExcess == 3         \* most characters a reply has beyond the message limit
MaxAppends == 12       \* most turns appended to one history between clears

(***************************************************************************)
(* Program constants.                                                      *)
(***************************************************************************)
DefaultNumQuestions == 10   \* line 550
TextLimit == 1500           \* line 710
ShownQuestions == 5         \* line 697
HeaderLen == 114            \* lines 686-694, with the defaults of each .get
QuestionHeadLen == 12       \* line 698: "\n\n**Cau :** " without the number
OptionHeadLen == 4          \* line 703: "\nA. "
NoteHeadLen == 10           \* line 706: "\n\n... (va "
NoteTailLen == 25           \* line 706: " cau khac trong file PDF)"
FooterHeadLen == 31         \* line 708: up to "**Tong "
FooterTailLen == 26         \* line 708: " cau** - Tao boi Gemini AI"

None == "None"              \* Python's None; f"{None}" is "None" as well

(***************************************************************************)
(* Strings as sequences of characters.                                     *)
(***************************************************************************)
LowerChar(c) ==
    CASE c = "C" -> "c" [] c = "R" -> "r" [] c = "E" -> "e" [] c = "A" -> "a"
      [] c = "T" -> "t" [] c = "H" -> "h" [] c = "L" -> "l" [] c = "P" -> "p"
      [] c = "S" -> "s" [] OTHER -> c

\* str.lower()
lower(s) == [i \in 1..Len(s) |-> LowerChar(s[i])]

\* str.startswith(prefix)
startswith(s, prefix) ==
    /\ Len(prefix) <= Len(s)
    /\ SubSeq(s, 1, Len(prefix)) = prefix

Whitespace == {" "}

RECURSIVE SplitFrom(_, _, _)
\* str.split() with no separator: runs of whitespace separate, no empty tokens
SplitFrom(s, i, cur) ==
    IF i > Len(s)
    THEN IF cur = <<>> THEN <<>> ELSE <<cur>>
    ELSE IF s[i] \in Whitespace
         THEN IF cur = <<>>
              THEN SplitFrom(s, i + 1, <<>>)
              ELSE <<cur>> \o SplitFrom(s, i + 1, <<>>)
         ELSE SplitFrom(s, i + 1, Append(cur, s[i]))

RECURSIVE join(_)
\* " ".join(tokens)
join(tokens) ==
    IF tokens = <<>> THEN <<>>
    ELSE IF Len(tokens) = 1 THEN tokens[1]
    ELSE tokens[1] \o <<" ">> \o join(Tail(tokens))

DecimalDigits == {"0", "1", "2", "3", "4", "5", "6", "7", "8", "9"}
\* characters for which str.isdigit() is true and int() fails (superscripts)
OtherDigits == {"^2"}

DigitValue(c) ==
    CASE c = "0" -> 0 [] c = "1" -> 1 [] c = "2" -> 2 [] c = "3" -> 3
      [] c = "4" -> 4 [] c = "5" -> 5 [] c = "6" -> 6 [] c = "7" -> 7
      [] c = "8" -> 8 [] c = "9" -> 9

\* str.isdigit(): non-empty and every character has the Unicode digit property
isdigit(s) ==
    /\ s # <<>>
    /\ \A i \in 1..Len(s) : s[i] \in DecimalDigits \cup OtherDigits

\* int(s) raises ValueError unless every character is a decimal digit
int_raises(s) == \E i \in 1..Len(s) : s[i] \notin DecimalDigits

RECURSIVE int(_)
int(s) ==
    IF s = <<>> THEN 0
    ELSE 10 * int(SubSeq(s, 1, Len(s) - 1)) + DigitValue(s[Len(s)])

\* f"{chat_id}_{user_id}" (lines 521, 542)
session_key(chat_id, user_id) == chat_id \o "_" \o user_id

(***************************************************************************)
(* Inbound requests.                                                       *)
(***************************************************************************)
\* texts are written character by character
t_start  == <<"/", "s", "t", "a", "r", "t">>
t_help   == <<"/", "H", "E", "L", "P">>
t_demo   == <<"/", "d", "e", "m", "o", "1">>
t_status == <<"/", "s", "t", "a", "t", "u", "s">>
t_clear  == <<"/", "c", "l", "e", "a", "r">>
t_search == <<"/", "s", "e", "a", "r", "c", "h", " ", "T">>
t_token  == <<"/", "t", "o", "k", "e", "n">>
t_create == <<"/", "c", "r", "e", "a", "t", "e">>
t_Create == <<"/", "C", "r", "e", "a", "t", "e">>
sp       == <<" ">>
tok_T    == <<"T">>
tok_9    == <<"9">>
tok_15   == <<"1", "5">>
tok_x    == <<"x">>
tok_sup2 == <<"^2">>
tok_e    == <<"e">>
tok_a    == <<"a">>
tok_b    == <<"b">>

\* bare or short /create: fewer than 3 argument tokens
ShortCreates ==
    { t_create,
      t_Create \o sp \o tok_T \o sp \o tok_9 }

\* inline /create: at least 3 argument tokens
InlineCreates ==
    { t_create \o sp \o tok_T \o sp \o tok_9 \o sp \o tok_15,
      t_Create \o sp \o tok_T \o sp \o tok_9 \o sp \o tok_x,
      t_create \o sp \o tok_T \o sp \o tok_9 \o sp \o tok_sup2,
      t_create \o sp \o tok_T \o sp \o tok_9 \o sp \o tok_15 \o sp \o tok_e,
      t_create \o sp \o tok_T \o sp \o sp \o tok_9 \o sp \o tok_15 \o sp
          \o tok_e \o sp \o tok_a \o sp \o sp \o tok_b }

PlainTexts ==
    { tok_T,
      tok_T \o sp \o tok_9 \o sp \o tok_15 }

Texts ==
    {<<>>, t_start, t_help, t_demo, t_status, t_clear, t_search, t_token}
        \cup ShortCreates \cup InlineCreates \cup PlainTexts

\* str.split() of every inbound text, computed once
SplitTable == [t \in Texts |-> SplitFrom(t, 1, <<>>)] @@ [t \in {} |-> <<>>]

split(s) == SplitTable[s]

\* (chat id, user id) of the senders; the first two share one session key
Conversations == { <<"1", "2_3">>, <<"1_2", "3">>, <<"4", "5">> }

\* data['message'] of a webhook body
Messages ==
    { [chat_id |-> c[1], user_id |-> c[2], text |-> t] :
          c \in Conversations, t \in Texts }
    \cup { [chat_id |-> None, user_id |-> "5", text |-> t_create],
           [chat_id |-> "4", user_id |-> None, text |-> t_start] }

\* the message the observation shows for a request that carries none
NoMessage == [chat_id |-> None, user_id |-> None, text |-> <<>>]

\* request.get_json(): nothing usable (an empty body: None, or the parser
\* raises), a JSON object without 'message', or one with it
Bodies ==
    { [kind |-> "empty", message |-> NoMessage],
      [kind |-> "event", message |-> NoMessage] }
    \cup { [kind |-> "message", message |-> m] : m \in Messages }

\* the X-Zalo-Bot-Secret-Token header compared with WEBHOOK_SECRET_TOKEN
\* (line 36, always set): not sent, equal, or different
SecretHeaders == {"absent", "match", "mismatch"}

\* the messages that are also sent with a secret header
HeaderProbes ==
    { [chat_id |-> "4", user_id |-> "5", text |-> t] : t \in {t_start, t_create} }

Requests ==
    { [secret |-> "absent", data |-> b] : b \in Bodies }
    \cup { [secret |-> h, data |-> [kind |-> "message", message |-> m]] :
              h \in SecretHeaders \ {"absent"}, m \in HeaderProbes }

(***************************************************************************)
(* What the collaborators answer during one request.                       *)
(***************************************************************************)
\* a question of exam_data['questions']: lengths of its text and options
Question(qlen, nopt) ==
    [question |-> qlen, options |-> [j \in 1..nopt |-> ShortOption]]

\* what generate_exam returns: None, a falsy object ({}), or an exam
Exam(n, qlen, nopt) ==
    [kind |-> "exam", questions |-> [i \in 1..n |-> Question(qlen, nopt)]]

\* exams without questions, and with about ShownQuestions questions, short
\* ones with four options each or long ones without options
Exams ==
    { Exam(n, ShortQuestion, 4) : n \in {0} \cup ((MaxQuestions - 2)..MaxQuestions) }
        \cup { Exam(n, LongQuestion, 0) : n \in (MaxQuestions - 1)..MaxQuestions }

GenOutcomes ==
    { [kind |-> "none", questions |-> <<>>],
      [kind |-> "empty", questions |-> <<>>] } \cup Exams

\* rendering: the file is built; doc.build raises (caught, line 185);
\* NamedTemporaryFile raises (line 103, outside the try)
PdfOutcomes == {"ok", "build_error", "tempfile_error"}

DefaultExam == Exam(MaxQuestions, ShortQuestion, 4)

\* the demo_exam of create_demo_exam (lines 635-659): two questions of four options
demo_exam == Exam(2, ShortQuestion, 4)

\* what the platform answers to the three document requests: uploadFile
\* gives a file_token (line 226), sendMessage with the token answers 200
\* (line 287), sendDocument with the file answers 200 (line 259)
TokenSent       == [upload |-> TRUE,  by_token |-> TRUE,  direct |-> TRUE]
TokenSendFailed == [upload |-> TRUE,  by_token |-> FALSE, direct |-> TRUE]
DirectSent      == [upload |-> FALSE, by_token |-> TRUE,  direct |-> TRUE]
BothFailed      == [upload |-> FALSE, by_token |-> TRUE,  direct |-> FALSE]

DocOutcomes == {TokenSent, TokenSendFailed, DirectSent, BothFailed}

\* An outcome that the code never consults is kept at one value.
Envs ==
    { e \in [gen : GenOutcomes, pdf : PdfOutcomes, doc : DocOutcomes] :
        /\ e.gen.kind # "exam" => e.pdf = "ok" /\ e.doc = TokenSent
        /\ e.pdf # "ok" => e.doc = TokenSent /\ e.gen = DefaultExam
        /\ (e.gen.kind = "exam" /\ e.pdf = "ok" /\ e.doc # BothFailed)
               => e.gen = DefaultExam }

DefaultEnv == [gen |-> DefaultExam, pdf |-> "ok", doc |-> TokenSent]

\* the command prefixes handle_message tests for (lines 453-503)
p_start  == <<"/", "s", "t", "a", "r", "t">>
p_help   == <<"/", "h", "e", "l", "p">>
p_demo   == <<"/", "d", "e", "m", "o">>
p_create == <<"/", "c", "r", "e", "a", "t", "e">>
p_status == <<"/", "s", "t", "a", "t", "u", "s">>

\* the requests that reach a collaborator other than send_message
EnvsFor(text) ==
    IF startswith(lower(text), p_create) THEN Envs
    ELSE IF startswith(lower(text), p_demo)
         THEN {e \in Envs : e.gen = DefaultExam}
         ELSE {DefaultEnv}

(***************************************************************************)
(* The world a handler runs in: the process state and what the request     *)
(* has done so far.                                                        *)
(***************************************************************************)
NoTopics == <<None>>    \* topics = None
DefaultQuestionType == <<"trac nghiem">>   \* line 551, as one token

World(sessions, fs) ==
    [ exam_sessions |-> sessions,
      files |-> fs,
      sent |-> <<>>,       \* send_message calls, in order
      calls |-> <<>>,      \* generate_exam calls, in order
      rendered |-> <<>>,   \* files generate_exam_pdf returned
      pdf_calls |-> 0,     \* generate_exam_pdf calls
      doc_calls |-> 0,     \* send_document calls
      doc_steps |-> <<>>,  \* the requests send_document made, in order
      doc_vals |-> <<>>,   \* what the send_document calls returned
      errors |-> <<>>,     \* logger.error calls of the handlers
      branch |-> "none" ]  \* the branch handle_message took

\* ZaloBot.send_message: the result is ignored by every caller
send_message(w, chat_id, kind, body) ==
    [w EXCEPT !.sent = Append(@, [chat_id |-> chat_id, kind |-> kind, body |-> body])]

\* ZaloBot.upload_file (lines 212-232): a file_token or None, never raises
upload_file(w, file_path, env) ==
    [w |-> [w EXCEPT !.doc_steps = Append(@, "upload_file")], val |-> env.doc.upload]

\* ZaloBot.send_file_by_token (lines 265-290): truthy or None, never raises
send_file_by_token(w, chat_id, env) ==
    [w |-> [w EXCEPT !.doc_steps = Append(@, "send_file_by_token")],
     val |-> env.doc.by_token]

\* the direct multipart request of send_document (lines 243-263)
send_direct(w, chat_id, file_path, env) ==
    [w |-> [w EXCEPT !.doc_steps = Append(@, "sendDocument")], val |-> env.doc.direct]

\* ZaloBot.send_document (lines 234-263): truthy or falsy result
send_document(w, chat_id, file_path, env) ==
    LET file_token == upload_file([w EXCEPT !.doc_calls = @ + 1], file_path, env)
        result == IF file_token.val
                  THEN send_file_by_token(file_token.w, chat_id, env)
                  ELSE send_direct(file_token.w, chat_id, file_path, env)
    IN  [w |-> [result.w EXCEPT !.doc_vals = Append(@, result.val)],
         val |-> result.val]

\* tempfile.NamedTemporaryFile(delete=False): a name not in use
NewFile(fs) == CHOOSE f \in 1..MaxFiles : f \notin fs /\ \A g \in 1..(f - 1) : g \in fs

\* ExamPDFGenerator.generate_exam_pdf; val 0 stands for None
generate_exam_pdf(w, exam_data, env) ==
    IF env.pdf = "tempfile_error" \/ (1..MaxFiles) \subseteq w.files
    THEN [w |-> [w EXCEPT !.pdf_calls = @ + 1], exc |-> TRUE, val |-> 0]
    ELSE LET f == NewFile(w.files)
             created == [w EXCEPT !.files = @ \cup {f}, !.pdf_calls = @ + 1]
         IN  IF env.pdf = "build_error"
             THEN [w |-> [created EXCEPT !.files = @ \ {f},
                                         !.errors = Append(@, "generate_exam_pdf")],
                   exc |-> FALSE, val |-> 0]
             ELSE [w |-> [created EXCEPT !.rendered = Append(@, f)],
                   exc |-> FALSE, val |-> f]

\* a cleanup that is left out
unlink_missing(w, pdf_path) == w

\* os.path.exists(pdf_path) and os.unlink(pdf_path)
unlink(w, pdf_path) == [w EXCEPT !.files = @ \ {pdf_path}]

(***************************************************************************)
(* format_exam_as_text (lines 683-714).  A text is a sequence of segments, *)
(* each with the number of characters it has (len) and the number it had   *)
(* before the cut to TextLimit (full).                                     *)
(***************************************************************************)
\* len(str(n))
DecLen(n) == IF n < 10 THEN 1 ELSE IF n < 100 THEN 2 ELSE 3

RECURSIVE SumLen(_)
SumLen(lens) == IF lens = <<>> THEN 0 ELSE Head(lens) + SumLen(Tail(lens))

Segment(kind, idx, n) == [kind |-> kind, idx |-> idx, len |-> n, full |-> n]

\* lines 698-703: "\n\n**Cau {i}:** {question}" and one line per option
QuestionSegment(i, q) ==
    Segment("question", i,
            QuestionHeadLen + DecLen(i) + q.question
                + SumLen([j \in 1..Len(q.options) |-> OptionHeadLen + q.options[j]]))

\* questions[:5]
FirstQuestions(questions) ==
    SubSeq(questions, 1, IF Len(questions) < ShownQuestions
                         THEN Len(questions) ELSE ShownQuestions)

\* lines 705-706
NoteSegments(questions) ==
    IF Len(questions) > ShownQuestions
    THEN << Segment("note", Len(questions) - ShownQuestions,
                    NoteHeadLen + DecLen(Len(questions) - ShownQuestions) + NoteTailLen) >>
    ELSE <<>>

\* line 708
FooterSegment(questions) ==
    Segment("footer", Len(questions),
            FooterHeadLen + DecLen(Len(questions)) + FooterTailLen)

RECURSIVE Truncate(_, _)
\* text[:limit]
Truncate(segs, limit) ==
    IF segs = <<>> \/ limit <= 0 THEN <<>>
    ELSE IF Head(segs).len <= limit
         THEN <<Head(segs)>> \o Truncate(Tail(segs), limit - Head(segs).len)
         ELSE << [Head(segs) EXCEPT !.len = limit] >>

FormatText(exam_data) ==
    LET questions == exam_data.questions
        shown == FirstQuestions(questions)
        text == << Segment("header", 0, HeaderLen) >>
                    \o [i \in 1..Len(shown) |-> QuestionSegment(i, shown[i])]
                    \o NoteSegments(questions)
                    \o << FooterSegment(questions) >>
    IN  Truncate(text, TextLimit)

\* format_exam_as_text of every exam, computed once
FormatTable == [e \in Exams \cup {demo_exam} |-> FormatText(e)] @@ [e \in {} |-> <<>>]

format_exam_as_text(exam_data) == FormatTable[exam_data]

TextLen(segs) == SumLen([i \in 1..Len(segs) |-> segs[i].len])

(***************************************************************************)
(* The exam flow.                                                          *)
(***************************************************************************)
\* a check that lets None through: "if exam_data == {}"
GenerationFailed_onlyEmpty(exam_data) == exam_data.kind = "empty"

\* "if not exam_data" (line 595): None and {} are both falsy
GenerationFailed(exam_data) == exam_data.kind # "exam"

\* create_exam_async (lines 583-631)
create_exam_async(w, chat_id, subject, grade, num_questions, question_types, topics, env) ==
    IF ~gemini_exam
    THEN \* None.generate_exam: AttributeError, caught at line 629
         send_message([w EXCEPT !.errors = Append(@, "create_exam_async")],
                      chat_id, "exam_error", <<>>)
    ELSE
    LET w1 == [w EXCEPT !.calls = Append(@,
                   [ subject |-> subject, grade |-> grade,
                     num_questions |-> num_questions,
                     question_types |-> question_types,
                     specific_topics |-> topics,
                     returned |-> env.gen ])]
        exam_data == env.gen
    IN  IF GenerationFailed(exam_data)
        THEN send_message(w1, chat_id, "gen_failed", <<>>)
        ELSE
        LET pdf == generate_exam_pdf(w1, exam_data, env)
        IN  IF pdf.exc
            THEN send_message([pdf.w EXCEPT !.errors = Append(@, "create_exam_async")],
                              chat_id, "exam_error", <<>>)
            ELSE IF pdf.val = 0
            THEN send_message(pdf.w, chat_id, "pdf_failed", <<>>)
            ELSE
            LET result == send_document(pdf.w, chat_id, pdf.val, env)
                w2 == IF result.val
                      THEN send_message(result.w, chat_id, "pdf_sent", <<>>)
                      ELSE send_message(result.w, chat_id, "text_fallback",
                                        format_exam_as_text(exam_data))
            IN  unlink(w2, pdf.val)

\* create_exam_from_data (lines 663-681)
create_exam_from_data(w, chat_id, exam_data, env) ==
    LET pdf == generate_exam_pdf(w, exam_data, env)
    IN  IF pdf.exc
        THEN [pdf.w EXCEPT !.errors = Append(@, "create_exam_from_data")]
        ELSE IF pdf.val # 0
        THEN LET result == send_document(pdf.w, chat_id, pdf.val, env)
                 w2 == IF result.val
                       THEN send_message(result.w, chat_id, "demo_ok", <<>>)
                       ELSE result.w
             IN  unlink(w2, pdf.val)
        ELSE send_message(pdf.w, chat_id, "demo_pdf_failed", <<>>)

create_demo_exam(w, chat_id, env) == create_exam_from_data(w, chat_id, demo_exam, env)

\* a session that starts one step too far
NewSession_secondStep == [step |-> "grade", data |-> <<>>]

\* the session a short /create stores (lines 559-562)
NewSession == [step |-> "subject", data |-> <<>>]

\* exam_sessions[key] = value
SetItem(sessions, key, value) ==
    [k \in DOMAIN sessions \cup {key} |-> IF k = key THEN value ELSE sessions[k]]

\* a test that takes no /create as an inline one
IsInline_never(parts) == FALSE

\* "if len(parts) >= 3" (line 547)
IsInline(parts) == Len(parts) >= 3

\* handle_create_exam (lines 539-581)
handle_create_exam(w, chat_id, user_id, text, env) ==
    LET key == session_key(chat_id, user_id)
        parts == Tail(split(text))
    IN  IF IsInline(parts)
        THEN IF isdigit(parts[3]) /\ int_raises(parts[3])
             THEN \* int() raises ValueError, caught at line 579
                  send_message([w EXCEPT !.errors = Append(@, "handle_create_exam")],
                               chat_id, "create_error", <<>>)
             ELSE
             LET subject == parts[1]
                 grade == parts[2]
                 num_questions == IF isdigit(parts[3]) THEN int(parts[3])
                                  ELSE DefaultNumQuestions
                 question_type == IF Len(parts) > 3 THEN parts[4]
                                  ELSE DefaultQuestionType
                 topics == IF Len(parts) > 4
                           THEN join(SubSeq(parts, 5, Len(parts)))
                           ELSE NoTopics
             IN  create_exam_async(
                     send_message(w, chat_id, "create_progress", <<>>),
                     chat_id, subject, grade, num_questions, <<question_type>>,
                     topics, env)
        ELSE send_message(
                 [w EXCEPT !.exam_sessions = SetItem(@, key, NewSession)],
                 chat_id, "create_prompt", <<>>)

(***************************************************************************)
(* The command router.                                                     *)
(***************************************************************************)
\* a cascade that compares the text as typed
Route_caseSensitive(text) ==
    IF startswith(text, p_start) THEN "start"
    ELSE IF startswith(text, p_help) THEN "help"
    ELSE IF startswith(text, p_demo) THEN "demo"
    ELSE IF startswith(text, p_create) THEN "create"
    ELSE IF startswith(text, p_status) THEN "status"
    ELSE "other"

\* the if/elif cascade of lines 453-519
Route(text) ==
    IF startswith(lower(text), p_start) THEN "start"
    ELSE IF startswith(lower(text), p_help) THEN "help"
    ELSE IF startswith(lower(text), p_demo) THEN "demo"
    ELSE IF startswith(lower(text), p_create) THEN "create"
    ELSE IF startswith(lower(text), p_status) THEN "status"
    ELSE "other"

\* a lookup that asks whether any session is open
has_session_any(sessions, chat_id, user_id) == DOMAIN sessions # {}

\* "session_key in exam_sessions" (lines 521-522)
has_session(sessions, chat_id, user_id) ==
    session_key(chat_id, user_id) \in DOMAIN sessions

\* handle_message (lines 439-537)
handle_message(w, message_data, env) ==
    LET chat_id == message_data.chat_id
        user_id == message_data.user_id
        text == message_data.text
        route == Route(text)
    IN  IF chat_id = None \/ text = <<>>
        THEN [w EXCEPT !.branch = "ignored"]
        ELSE IF route = "start"
        THEN send_message([w EXCEPT !.branch = "start"], chat_id, "welcome", <<>>)
        ELSE IF route = "help"
        THEN send_message([w EXCEPT !.branch = "help"], chat_id, "help", <<>>)
        ELSE IF route = "demo"
        THEN create_demo_exam(
                 send_message([w EXCEPT !.branch = "demo"], chat_id, "demo_progress", <<>>),
                 chat_id, env)
        ELSE IF route = "create"
        THEN handle_create_exam([w EXCEPT !.branch = "create"], chat_id, user_id, text, env)
        ELSE IF route = "status"
        THEN send_message([w EXCEPT !.branch = "status"], chat_id, "status", <<>>)
        ELSE IF has_session(w.exam_sessions, chat_id, user_id)
        THEN \* handle_exam_input is defined nowhere: the call at line 523
             \* raises NameError, caught and logged at lines 536-537
             [w EXCEPT !.branch = "exam_input",
                       !.errors = Append(@, "handle_message")]
        ELSE send_message([w EXCEPT !.branch = "suggestion"], chat_id, "suggestion", <<>>)

(***************************************************************************)
(* The collaborator wrappers, call by call.                                *)
(***************************************************************************)
\* Response texts of the AI service are written with four characters:
\* "{" and "}" as they are, "m" for a member of a JSON object, "p" for any
\* other character (prose around or inside the object).
ResponseChars == {"{", "}", "m", "p"}

RECURSIVE ResponseTexts(_)
ResponseTexts(n) ==
    IF n = 0 THEN {<<>>}
    ELSE ResponseTexts(n - 1)
             \cup { Append(t, c) : t \in {u \in ResponseTexts(n - 1) : Len(u) = n - 1},
                                   c \in ResponseChars }

\* generate_content_stream: raises, or streams chunks that add up to a text
Responses == [raises : BOOLEAN, text : ResponseTexts(MaxResponseLen)]

\* str.find / str.rfind with Python's indices: from 0, -1 when absent
find(s, c) ==
    IF \E i \in 1..Len(s) : s[i] = c
    THEN (CHOOSE i \in 1..Len(s) : s[i] = c /\ \A j \in 1..(i - 1) : s[j] # c) - 1
    ELSE -1

\* a search from the left where the code searches from the right
rfind_first(s, c) == find(s, c)

rfind(s, c) ==
    IF \E i \in 1..Len(s) : s[i] = c
    THEN (CHOOSE i \in 1..Len(s) : s[i] = c /\ \A j \in (i + 1)..Len(s) : s[j] # c) - 1
    ELSE -1

\* s[start:end] for 0 <= start and 0 <= end <= len(s)
Slice(s, start, end) == SubSeq(s, start + 1, end)

\* json.loads: where the object that opens at i ends (the index after its
\* "}"), 0 when the text is no JSON there.  A "{" inside an object is the
\* value of a member.
RECURSIVE ParseMembers(_, _)
ParseMembers(s, i) ==
    IF i > Len(s) THEN 0
    ELSE IF s[i] = "}" THEN i + 1
    ELSE IF s[i] = "m" THEN ParseMembers(s, i + 1)
    ELSE IF s[i] = "{"
         THEN LET j == ParseMembers(s, i + 1)
              IN  IF j = 0 THEN 0 ELSE ParseMembers(s, j)
         ELSE 0

\* json.loads(s) raises JSONDecodeError unless s is one JSON document
json_raises(s) ==
    \/ s = <<>>
    \/ s[1] # "{"
    \/ ParseMembers(s, 2) # Len(s) + 1

NoObject == [kind |-> "none", json |-> <<>>]

\* GeminiExamGenerator.generate_exam from the stream on (lines 368-398):
\* the value returned, the return statement taken, whether it raised
generate_exam(response) ==
    IF response.raises
    THEN [val |-> NoObject, path |-> "error", exc |-> FALSE]
    ELSE LET response_text == response.text
             start_idx == find(response_text, "{")
             end_idx == rfind(response_text, "}") + 1
         IN  IF start_idx # -1 /\ end_idx # -1
             THEN LET json_str == Slice(response_text, start_idx, end_idx)
                  IN  IF json_raises(json_str)
                      THEN [val |-> NoObject, path |-> "decode_error", exc |-> FALSE]
                      ELSE [val |-> [kind |-> "object", json |-> json_str],
                            path |-> "parsed", exc |-> FALSE]
             ELSE [val |-> NoObject, path |-> "no_json", exc |-> FALSE]

\* the wire limit of a message text (line 201)
MessageLimit == 2000

\* the texts handed to send_message: character i of variant v is (i + v) % 7
ReplyLengths == {0, 1} \cup ((MessageLimit - 2)..(MessageLimit + MaxExcess))
ReplyTexts == { [i \in 1..n |-> (i + v) % 7] : n \in ReplyLengths, v \in {0, 3} }

\* requests.post and response.json(): answered 200 with JSON, answered 200
\* with a body that is no JSON, answered with another status, not answered
Answers == {"ok", "bad_json", "status_error", "connection_error"}

\* a payload that carries the text as it is
payload_text_whole(text) == text

\* 'text': text[:2000] (line 201)
payload_text(text) ==
    SubSeq(text, 1, IF Len(text) < MessageLimit THEN Len(text) ELSE MessageLimit)

\* ZaloBot.send_message (lines 196-210): the text put on the wire, the
\* value returned (TRUE for the parsed answer, FALSE for None), whether it raised
post_message(text, answer) ==
    [ wire |-> payload_text(text),
      val |-> (answer = "ok"),
      exc |-> FALSE ]

NoCall == [fn |-> "none", done |-> TRUE]

(***************************************************************************)
(* The conversation store, as section 4.1 of the specification describes   *)
(* it (src/app.py has none).  A turn is written as its ordinal among the   *)
(* turns appended to its key.                                              *)
(***************************************************************************)
MaxTurns == 10     \* "truncates to the most recent 10 turns"

StoreKeys == { session_key(c[1], c[2]) : c \in Conversations }

NoHistory == [k \in {} |-> <<>>]

NoAppends == [k \in StoreKeys |-> [n |-> 0, cleared |-> FALSE]]

\* the last n elements of h, all of it when it has fewer
LastTurns(h, n) == SubSeq(h, IF Len(h) > n THEN Len(h) - n + 1 ELSE 1, Len(h))

\* an append that never evicts
append_unbounded(store, key, turn) ==
    [k \in DOMAIN store \cup {key} |->
        IF k = key
        THEN Append(IF key \in DOMAIN store THEN store[key] ELSE <<>>, turn)
        ELSE store[k]]

\* append(key, user_text, bot_text): creates the entry if absent, appends
\* the turn, truncates to the most recent MaxTurns turns
append(store, key, turn) ==
    [k \in DOMAIN store \cup {key} |->
        IF k = key
        THEN LastTurns(Append(IF key \in DOMAIN store THEN store[key] ELSE <<>>, turn),
                       MaxTurns)
        ELSE store[k]]

\* /clear: the entry is deleted entirely
clear(store, key) == [k \in DOMAIN store \ {key} |-> store[k]]

\* recent_context(key, max_turns): null if no history exists, otherwise the
\* last max_turns turns, oldest first
recent_context(store, key, max_turns) ==
    IF key \notin DOMAIN store
    THEN [null |-> TRUE, turns |-> <<>>]
    ELSE [null |-> FALSE, turns |-> LastTurns(store[key], max_turns)]

(***************************************************************************)
(* One request at the grain of its accesses to exam_sessions.  A handler   *)
(* reads the table at most once (the membership test of line 522, the      *)
(* len() of line 512) and writes it at most once (line 559); between and   *)
(* after these it only talks to the platform.                              *)
(***************************************************************************)
ThreadIds == {1, 2}

\* the texts of requests handled at the same time
ThreadTexts == {t_create, tok_T, t_status, t_start}

ThreadMessages ==
    { [chat_id |-> c[1], user_id |-> c[2], text |-> t] :
          c \in {<<"4", "5">>, <<"1", "2_3">>}, t \in ThreadTexts }

\* the session tables the requests may find: after no /create, after
\* either sender's /create, after both
StartTables ==
    { [k \in K |-> NewSession] : K \in SUBSET {session_key("4", "5"), session_key("1", "2_3")} }

NothingSeen == [present |-> FALSE, count |-> 0]

\* what the handler reads from the table (lines 512, 522)
session_lookup(route, sessions, key) ==
    IF route = "other"
    THEN [present |-> key \in DOMAIN sessions, count |-> 0]
    ELSE IF route = "status"
    THEN [present |-> FALSE, count |-> Cardinality(DOMAIN sessions)]
    ELSE NothingSeen

\* a handler that opens a session for a sender it saw none for
session_effect_opens(route, sessions, key, seen) ==
    IF route = "create"
    THEN [sessions |-> SetItem(sessions, key, NewSession),
          sent |-> <<[kind |-> "create_prompt", count |-> 0]>>]
    ELSE IF route = "other"
    THEN IF seen.present
         THEN [sessions |-> sessions, sent |-> <<>>]
         ELSE [sessions |-> SetItem(sessions, key, NewSession),
               sent |-> <<[kind |-> "suggestion", count |-> 0]>>]
    ELSE IF route = "status"
    THEN [sessions |-> sessions, sent |-> <<[kind |-> "status", count |-> seen.count]>>]
    ELSE [sessions |-> sessions, sent |-> <<[kind |-> "welcome", count |-> 0]>>]

\* what the handler then does with what it read: the table it leaves and
\* the replies it sends (lines 453-454, 505-517, 522-534, 559-577); the
\* status reply shows the number of sessions read
session_effect(route, sessions, key, seen) ==
    IF route = "create"
    THEN [sessions |-> SetItem(sessions, key, NewSession),
          sent |-> <<[kind |-> "create_prompt", count |-> 0]>>]
    ELSE IF route = "other"
    THEN IF seen.present
         THEN [sessions |-> sessions, sent |-> <<>>]
         ELSE [sessions |-> sessions, sent |-> <<[kind |-> "suggestion", count |-> 0]>>]
    ELSE IF route = "status"
    THEN [sessions |-> sessions, sent |-> <<[kind |-> "status", count |-> seen.count]>>]
    ELSE [sessions |-> sessions, sent |-> <<[kind |-> "welcome", count |-> 0]>>]

Thread(message) ==
    [message |-> message, pc |-> "read", seen |-> NothingSeen, sent |-> <<>>]

NoThreads == [t \in {} |-> Thread(NoMessage)]

(***************************************************************************)
(* The webhook endpoint and the specification.                             *)
(***************************************************************************)
NoSessions == [k \in {} |-> [step |-> "subject", data |-> <<>>]]

NoFlow == [key |-> None, n |-> 0, gens |-> 0]

\* the steps the interactive flow is specified to go through
Steps == <<"subject", "grade", "num_questions", "question_type", "topics">>

\* a text that is no command of any kind
IsPlain(text) == text # <<>> /\ text[1] # "/"

\* History of the interactive flow: the key of the last short /create, the
\* plain messages that key has sent since, and the generate_exam calls they made.
NextFlow(message_data, w) ==
    LET key == session_key(message_data.chat_id, message_data.user_id)
    IN  IF w.branch \in {"ignored", "none"} THEN flow
        ELSE IF message_data.text \in ShortCreates
        THEN [key |-> key, n |-> 0, gens |-> 0]
        ELSE IF flow.key = key
        THEN IF IsPlain(message_data.text) /\ flow.n < Len(Steps)
             THEN [flow EXCEPT !.n = @ + 1, !.gens = @ + Len(w.calls)]
             ELSE NoFlow
        ELSE flow

Observation(request, w, status) ==
    LET message_data == request.data.message
    IN
    [ secret |-> request.secret,
      body |-> request.data.kind,
      status |-> status,
      chat_id |-> message_data.chat_id,
      user_id |-> message_data.user_id,
      text |-> message_data.text,
      had_session |->
          session_key(message_data.chat_id, message_data.user_id)
              \in DOMAIN exam_sessions,
      step_before |->
          IF session_key(message_data.chat_id, message_data.user_id)
                 \in DOMAIN exam_sessions
          THEN exam_sessions[session_key(message_data.chat_id, message_data.user_id)].step
          ELSE None,
      branch |-> w.branch,
      sent |-> w.sent,
      calls |-> w.calls,
      rendered |-> w.rendered,
      pdf_calls |-> w.pdf_calls,
      doc_calls |-> w.doc_calls,
      doc_steps |-> w.doc_steps,
      doc_vals |-> w.doc_vals,
      errors |-> w.errors ]

\* the HTTP status codes of the two return statements (lines 434, 437)
HttpOk == 200
HttpError == 500

\* the body of webhook (lines 426-437): the world it leaves and the status.
\* With no usable body request.get_json() raises or returns None, and then
\* "'message' in data" raises TypeError: both end at line 437.
dispatch(w, request, env) ==
    IF request.data.kind = "empty"
    THEN [w |-> [w EXCEPT !.errors = Append(@, "webhook")], status |-> HttpError]
    ELSE IF request.data.kind = "message"
    THEN [w |-> handle_message(w, request.data.message, env), status |-> HttpOk]
    ELSE [w |-> w, status |-> HttpOk]

\* webhook (lines 424-437)
webhook(request, env) ==
    \E r \in {dispatch(World(exam_sessions, files), request, env)} :
        /\ exam_sessions' = r.w.exam_sessions
        /\ files' = r.w.files
        /\ last' = Observation(request, r.w, r.status)
        /\ flow' = NextFlow(request.data.message, r.w)
        /\ UNCHANGED <<gemini_exam, call, store_vars, thread_vars>>

NoRequest == [secret |-> "absent", data |-> [kind |-> "event", message |-> NoMessage]]

Init ==
    /\ exam_sessions = NoSessions
    /\ gemini_exam \in BOOLEAN
    /\ files = {}
    /\ last = Observation(NoRequest, World(NoSessions, {}), HttpOk)
    /\ flow = NoFlow
    /\ call = NoCall
    /\ history = NoHistory
    /\ appends = NoAppends
    /\ threads = NoThreads
    /\ started = NoSessions
    /\ trace = <<>>

Next == \E request \in Requests : \E env \in EnvsFor(request.data.message.text) :
            webhook(request, env)

Spec == Init /\ [][Next]_vars

(***************************************************************************)
(* The collaborator wrappers on their own: one call, with any argument and *)
(* any answer of the service behind it (the wrappers keep no state).       *)
(***************************************************************************)
PendingCalls ==
    { [fn |-> "generate_exam", done |-> FALSE, response |-> r] : r \in Responses }
    \cup { [fn |-> "send_message", done |-> FALSE, text |-> t, answer |-> a] :
               t \in ReplyTexts, a \in Answers }

InitCalls ==
    /\ exam_sessions = NoSessions
    /\ gemini_exam \in BOOLEAN
    /\ files = {}
    /\ last = Observation(NoRequest, World(NoSessions, {}), HttpOk)
    /\ flow = NoFlow
    /\ call \in PendingCalls
    /\ history = NoHistory
    /\ appends = NoAppends
    /\ threads = NoThreads
    /\ started = NoSessions
    /\ trace = <<>>

call_generate_exam ==
    /\ call.fn = "generate_exam" /\ ~call.done
    /\ call' = [fn |-> "generate_exam", done |-> TRUE, response |-> call.response,
                result |-> generate_exam(call.response)]
    /\ UNCHANGED <<exam_sessions, handler_vars, store_vars, thread_vars>>

call_send_message ==
    /\ call.fn = "send_message" /\ ~call.done
    /\ call' = [fn |-> "send_message", done |-> TRUE, text |-> call.text,
                answer |-> call.answer,
                result |-> post_message(call.text, call.answer)]
    /\ UNCHANGED <<exam_sessions, handler_vars, store_vars, thread_vars>>

NextCalls == call_generate_exam \/ call_send_message

SpecCalls == InitCalls /\ [][NextCalls]_vars

(***************************************************************************)
(* The conversation store on its own: appends and clears in any order.     *)
(***************************************************************************)
store_append(key) ==
    /\ appends[key].n < MaxAppends
    /\ history' = append(history, key, appends[key].n + 1)
    /\ appends' = [appends EXCEPT ![key].n = @ + 1]
    /\ UNCHANGED <<exam_sessions, handler_vars, call, thread_vars>>

store_clear(key) ==
    /\ history' = clear(history, key)
    /\ appends' = [appends EXCEPT ![key] = [n |-> 0, cleared |-> TRUE]]
    /\ UNCHANGED <<exam_sessions, handler_vars, call, thread_vars>>

NextStore ==
    \/ \E key \in StoreKeys : store_append(key)
    \/ \E key \in StoreKeys : store_clear(key)

SpecStore == Init /\ [][NextStore]_vars

(***************************************************************************)
(* Two requests handled at the same time (the server runs each request in  *)
(* a thread of its own): their table accesses in any order.  Each thread   *)
(* runs to its end.                                                        *)
(***************************************************************************)
InitThreads ==
    /\ exam_sessions \in StartTables
    /\ gemini_exam \in BOOLEAN
    /\ files = {}
    /\ last = Observation(NoRequest, World(NoSessions, {}), HttpOk)
    /\ flow = NoFlow
    /\ call = NoCall
    /\ history = NoHistory
    /\ appends = NoAppends
    /\ threads \in [ThreadIds -> {Thread(m) : m \in ThreadMessages}]
    /\ started = exam_sessions
    /\ trace = <<>>

ThreadKey(t) == session_key(threads[t].message.chat_id, threads[t].message.user_id)

thread_read(t) ==
    /\ threads[t].pc = "read"
    /\ threads' = [threads EXCEPT
                      ![t].seen = session_lookup(Route(threads[t].message.text),
                                                 exam_sessions, ThreadKey(t)),
                      ![t].pc = "act"]
    /\ trace' = Append(trace, <<t, "read">>)
    /\ UNCHANGED <<exam_sessions, handler_vars, call, store_vars, started>>

thread_act(t) ==
    /\ threads[t].pc = "act"
    /\ \E r \in {session_effect(Route(threads[t].message.text), exam_sessions,
                                 ThreadKey(t), threads[t].seen)} :
           /\ exam_sessions' = r.sessions
           /\ threads' = [threads EXCEPT ![t].sent = r.sent, ![t].pc = "done"]
    /\ trace' = Append(trace, <<t, "act">>)
    /\ UNCHANGED <<handler_vars, call, store_vars, started>>

NextThreads == \E t \in ThreadIds : thread_read(t) \/ thread_act(t)

SpecThreads == InitThreads /\ [][NextThreads]_vars /\ WF_vars(NextThreads)

(***************************************************************************)
(* Properties.  Each is about the request handled last (the observation    *)
(* `last`) and the state it left.                                          *)
(***************************************************************************)
\* the request carried a chat id and a non-empty text
Handled == last.chat_id # None /\ last.text # <<>>

LastKey == session_key(last.chat_id, last.user_id)

\* the tokens after the command word
ArgTokens(text) == Tail(split(text))

\* the commands of the specification's router table, in its order
SpecCommands ==
    << [name |-> "start",  prefix |-> <<"/", "s", "t", "a", "r", "t">>],
       [name |-> "help",   prefix |-> <<"/", "h", "e", "l", "p">>],
       [name |-> "clear",  prefix |-> <<"/", "c", "l", "e", "a", "r">>],
       [name |-> "search", prefix |-> <<"/", "s", "e", "a", "r", "c", "h">>],
       [name |-> "token",  prefix |-> <<"/", "t", "o", "k", "e", "n">>],
       [name |-> "create", prefix |-> <<"/", "c", "r", "e", "a", "t", "e">>],
       [name |-> "demo",   prefix |-> <<"/", "d", "e", "m", "o">>],
       [name |-> "status", prefix |-> <<"/", "s", "t", "a", "t", "u", "s">>] >>

\* the commands the code has a branch for
CodeCommandNames == {"start", "help", "create", "demo", "status"}

Matches(text, i) == startswith(lower(text), SpecCommands[i].prefix)

\* the text starts with none of the given commands' prefixes
NoPrefixAmong(text, names) ==
    \A i \in 1..Len(SpecCommands) :
        SpecCommands[i].name \in names => ~Matches(text, i)

SpecCommandNames == {SpecCommands[i].name : i \in 1..Len(SpecCommands)}

CountKind(sent, kinds) == Cardinality({i \in 1..Len(sent) : sent[i].kind \in kinds})

\* replies with a fixed text
FixedReplies ==
    { "welcome", "help", "status", "suggestion", "demo_progress", "demo_ok",
      "demo_pdf_failed", "create_prompt", "create_progress", "create_error",
      "gen_failed", "pdf_failed", "pdf_sent", "exam_error" }

FailureReplies == {"gen_failed", "pdf_failed", "exam_error", "create_error"}

StepIndex(step) == CHOOSE i \in 1..Len(Steps) : Steps[i] = step

(* C1: after a short /create from a key, the n-th plain message from that  *)
(* key leaves the session at the step after n answers; the fifth invokes   *)
(* generation, once in all, and removes the session.                       *)
C1_InteractiveFlowCompletes ==
    flow.key # None =>
        IF flow.n < Len(Steps)
        THEN /\ flow.key \in DOMAIN exam_sessions
             /\ exam_sessions[flow.key].step = Steps[flow.n + 1]
             /\ flow.gens = 0
        ELSE /\ flow.gens = 1
             /\ flow.key \notin DOMAIN exam_sessions

(* C2: a /create with fewer than 3 argument tokens leaves a session for    *)
(* the sender's key at step subject with no data, sends exactly the prompt *)
(* and calls no generation, whether or not the key had a session.          *)
C2_ShortCreateOpensSession ==
    (Handled /\ Matches(last.text, 6) /\ Len(ArgTokens(last.text)) < 3) =>
        /\ LastKey \in DOMAIN exam_sessions
        /\ exam_sessions[LastKey] = [step |-> "subject", data |-> <<>>]
        /\ last.sent = << [chat_id |-> last.chat_id, kind |-> "create_prompt",
                           body |-> <<>>] >>
        /\ last.calls = <<>>

C2_Witness ==
    /\ Handled /\ Matches(last.text, 6) /\ Len(ArgTokens(last.text)) = 2
    /\ last.had_session
    /\ exam_sessions[LastKey].step = "subject"
    /\ Len(last.sent) = 1

\* the value the claim gives num_questions: int(token) for a decimal number,
\* the default for a token that is no number
ClaimedNumQuestions(token) ==
    IF ~isdigit(token) THEN {DefaultNumQuestions}
    ELSE IF ~int_raises(token) THEN {int(token)}
    ELSE 0..99

(* C3: a /create with at least 3 argument tokens calls generation exactly  *)
(* once, with subject, grade, num_questions, question type and topics      *)
(* taken from the tokens.                                                  *)
C3_InlineCreateGenerates ==
    (Handled /\ gemini_exam /\ Matches(last.text, 6)
        /\ Len(ArgTokens(last.text)) >= 3) =>
        LET a == ArgTokens(last.text)
        IN  /\ Len(last.calls) = 1
            /\ last.calls[1].subject = a[1]
            /\ last.calls[1].grade = a[2]
            /\ last.calls[1].num_questions \in ClaimedNumQuestions(a[3])
            /\ last.calls[1].question_types =
                   << IF Len(a) >= 4 THEN a[4] ELSE DefaultQuestionType >>
            /\ last.calls[1].specific_topics =
                   IF Len(a) >= 5 THEN join(SubSeq(a, 5, Len(a))) ELSE NoTopics

(* C4: when generate_exam returns nothing, exactly one failure reply goes  *)
(* to the chat, generation is not called again, no PDF is rendered and no  *)
(* document is sent.                                                       *)
C4_NullGenerationFails ==
    (\E i \in 1..Len(last.calls) : last.calls[i].returned.kind # "exam") =>
        /\ Len(last.calls) = 1
        /\ CountKind(last.sent, FailureReplies) = 1
        /\ last.sent[Len(last.sent)] =
               [chat_id |-> last.chat_id, kind |-> "gen_failed", body |-> <<>>]
        /\ CountKind(last.sent, {"pdf_sent", "text_fallback"}) = 0
        /\ last.pdf_calls = 0
        /\ last.rendered = <<>>
        /\ last.doc_calls = 0

C4_Witness ==
    /\ Len(last.calls) = 1
    /\ last.calls[1].returned.kind = "none"
    /\ CountKind(last.sent, {"gen_failed"}) = 1

\* the fallback messages of the last request
Fallbacks == {i \in 1..Len(last.sent) : last.sent[i].kind = "text_fallback"}

\* the note is there up to and including the number of omitted questions
ShowsOmitted(body, omitted) ==
    \E j \in 1..Len(body) :
        /\ body[j].kind = "note"
        /\ body[j].idx = omitted
        /\ body[j].len >= NoteHeadLen + DecLen(omitted)

(* C5: when the PDF was rendered and the document delivery failed, exactly *)
(* one fallback text is sent; its rendering has at most TextLimit          *)
(* characters, no question after the fifth and, for an exam of more than   *)
(* five questions, the note with the number of omitted questions.          *)
C5_FallbackText ==
    (last.rendered # <<>> /\ last.doc_calls = 1 /\ Fallbacks # {}) =>
        /\ Cardinality(Fallbacks) = 1
        /\ \A i \in Fallbacks :
              LET body == last.sent[i].body
                  total == Len(last.calls[1].returned.questions)
              IN  /\ TextLen(body) <= TextLimit
                  /\ \A j \in 1..Len(body) :
                        body[j].kind = "question" => body[j].idx <= ShownQuestions
                  /\ total > ShownQuestions =>
                        ShowsOmitted(body, total - ShownQuestions)

(* C6: a temporary PDF file that a request rendered does not exist when    *)
(* the request has been handled.                                           *)
C6_TempFileRemoved ==
    \A i \in 1..Len(last.rendered) : last.rendered[i] \notin files

C6_Witness ==
    /\ last.rendered # <<>>
    /\ Fallbacks # {}
    /\ files = {}

(* C7: a request with a chat id and a non-empty text gets at least one     *)
(* reply to that chat.                                                     *)
C7_AlwaysReplies ==
    Handled => \E i \in 1..Len(last.sent) : last.sent[i].chat_id = last.chat_id

C9_PlainTextAdvancesSession ==
    (Handled /\ NoPrefixAmong(last.text, SpecCommandNames) /\ last.had_session) =>
        /\ last.branch = "exam_input"
        /\ CountKind(last.sent, {"suggestion"}) = 0
        /\ IF StepIndex(last.step_before) < Len(Steps)
           THEN /\ LastKey \in DOMAIN exam_sessions
                /\ exam_sessions[LastKey].step = Steps[StepIndex(last.step_before) + 1]
           ELSE LastKey \notin DOMAIN exam_sessions

Malformed(obs) ==
    /\ obs.body = "message"
    /\ obs.chat_id = None \/ obs.user_id = None \/ obs.text = <<>>

\* the request made no reply, no generate_exam call and no document request
Quiet(obs) ==
    /\ obs.sent = <<>>
    /\ obs.calls = <<>>
    /\ obs.pdf_calls = 0
    /\ obs.doc_calls = 0

(* C11: the endpoint answers 200 whenever dispatch completes, also when    *)
(* the message handler failed inside; 400 for an empty body; 500 only when *)
(* an exception escaped dispatch.                                          *)
C11_WebhookStatus ==
    /\ last.body = "empty" => last.status = 400
    /\ last.body # "empty" => last.status = 200
    /\ last.status = 500 => last.errors # <<>>

(* C12: a request whose secret header is present and differs from the      *)
(* configured secret is answered 403 and handles no message; a request     *)
(* without the header is accepted.                                         *)
C12_SecretHeaderChecked ==
    /\ last.secret = "mismatch" =>
           last.status = 403 /\ last.branch = "none" /\ Quiet(last)
    /\ (last.secret = "absent" /\ last.body = "message") =>
           last.status = 200 /\ last.branch # "none"

(* C13: a message without chat id, without user id or without text is      *)
(* ignored: no reply, no AI or document call, the session table unchanged. *)
C13_MalformedIgnored ==
    [][ Malformed(last') => (Quiet(last') /\ exam_sessions' = exam_sessions) ]_vars

\* the first send_document call of the request got its file sent by token
SentByToken(obs) ==
    /\ Len(obs.doc_steps) >= 2
    /\ obs.doc_steps[2] = "send_file_by_token"
    /\ obs.doc_vals[1]

Attempted(obs, step) == \E i \in 1..Len(obs.doc_steps) : obs.doc_steps[i] = step

(* C14: send_document tries upload-then-send-by-token first and, when that *)
(* did not end in a successful send, the direct multipart upload; it       *)
(* returns null only when both paths failed.                               *)
C14_DocumentFallback ==
    last.doc_calls > 0 =>
        /\ last.doc_steps[1] = "upload_file"
        /\ ~SentByToken(last) => Attempted(last, "sendDocument")
        /\ ~last.doc_vals[1] =>
               /\ Attempted(last, "sendDocument")
               /\ ~SentByToken(last)

(***************************************************************************)
(* The session table.                                                      *)
(***************************************************************************)
\* the request is /start, /help, /demo, /status or a /create with at least
\* three argument tokens
KeepsSessions(obs) ==
    /\ obs.chat_id # None /\ obs.text # <<>>
    /\ \/ \E i \in 1..Len(SpecCommands) :
              /\ SpecCommands[i].name \in {"start", "help", "demo", "status"}
              /\ Matches(obs.text, i)
       \/ /\ \E i \in 1..Len(SpecCommands) :
                 SpecCommands[i].name = "create" /\ Matches(obs.text, i)
          /\ Len(ArgTokens(obs.text)) >= 3

(* C19: /start, /help, /demo, /status and a /create with three or more     *)
(* argument tokens leave the session table as it was: no session is        *)
(* created, and an open session keeps its step and its data.               *)
C19_CommandsKeepSessions ==
    [][ exam_sessions' = exam_sessions \/ ~KeepsSessions(last') ]_vars

\* an inline /create that generated an exam while its sender's session was
\* open, and the session is still at the step it was
C19_Witness ==
    /\ KeepsSessions(last) /\ last.branch = "create"
    /\ last.calls # <<>>
    /\ last.had_session
    /\ LastKey \in DOMAIN exam_sessions
    /\ exam_sessions[LastKey].step = last.step_before

\* the session entry of the conversation c = <<chat id, user id>>
SessionOf(sessions, c) ==
    IF session_key(c[1], c[2]) \in DOMAIN sessions
    THEN [open |-> TRUE, step |-> sessions[session_key(c[1], c[2])].step]
    ELSE [open |-> FALSE, step |-> None]

(* C20: handling a message from one (chat id, user id) pair reads and      *)
(* writes only that pair's session entry: the entry of every other pair    *)
(* is as it was.                                                           *)
C20_SessionsIsolated ==
    [][ (last'.chat_id # None /\ last'.text # <<>>) =>
            \A c \in Conversations :
                c # <<last'.chat_id, last'.user_id>> =>
                    SessionOf(exam_sessions', c) = SessionOf(exam_sessions, c) ]_vars

(***************************************************************************)
(* The collaborator wrappers.                                              *)
(***************************************************************************)
HasChar(s, c) == \E i \in 1..Len(s) : s[i] = c

\* the text from its first "{" to its last "}", empty when there is none
Braced(s) ==
    LET opens == {i \in 1..Len(s) : s[i] = "{"}
        closes == {i \in 1..Len(s) : s[i] = "}"}
    IN  IF opens = {} \/ closes = {} THEN <<>>
        ELSE SubSeq(s, CHOOSE i \in opens : \A j \in opens : i <= j,
                       CHOOSE i \in closes : \A j \in closes : i >= j)

(* C15: generate_exam returns the object parsed from the text between the  *)
(* first "{" and the last "}" of the response; it returns null, and never  *)
(* raises, when there is no "{", no "}", when that text is no JSON, or     *)
(* when the AI call raised.                                                *)
C15_ExamParsedOrNull ==
    (call.fn = "generate_exam" /\ call.done) =>
        /\ ~call.result.exc
        /\ IF \/ call.response.raises
              \/ ~HasChar(call.response.text, "{")
              \/ ~HasChar(call.response.text, "}")
              \/ json_raises(Braced(call.response.text))
           THEN call.result.val = NoObject
           ELSE call.result.val = [kind |-> "object", json |-> Braced(call.response.text)]

\* an object with a nested object, found between prose
C15_Witness ==
    /\ call.fn = "generate_exam" /\ call.done
    /\ call.response.text = <<"p", "{", "{", "}", "}">>
    /\ call.result.val.kind = "object"
    /\ call.result.val.json = <<"{", "{", "}", "}">>

(* C16: the text send_message transmits has at most 2000 characters: the   *)
(* first 2000 of a longer text, the whole of a shorter one; a failed or    *)
(* non-200 request gives null and nothing is raised.                       *)
C16_TextCutAt2000 ==
    (call.fn = "send_message" /\ call.done) =>
        /\ Len(call.result.wire) <= 2000
        /\ Len(call.text) > 2000 => call.result.wire = SubSeq(call.text, 1, 2000)
        /\ Len(call.text) <= 2000 => call.result.wire = call.text
        /\ ~call.result.exc
        /\ call.answer # "ok" => ~call.result.val

\* a text of more than 2000 characters whose request was not answered
C16_Witness ==
    /\ call.fn = "send_message" /\ call.done
    /\ Len(call.text) > 2000
    /\ Len(call.result.wire) = 2000
    /\ call.answer = "connection_error"
    /\ ~call.result.val

(***************************************************************************)
(* The conversation store.                                                 *)
(***************************************************************************)
\* the n-th turn and the ones before it, at most ten, oldest first
LastTen(n) ==
    [i \in 1..(IF n > 10 THEN 10 ELSE n) |-> (IF n > 10 THEN n - 10 ELSE 0) + i]

(* C17: the history of a key never holds more than 10 turns: after N       *)
(* appends it is the (at most) 10 most recent turns in insertion order,    *)
(* and after /clear the key has no history: recent_context returns null.   *)
C17_HistoryHoldsLastTen ==
    \A k \in StoreKeys :
        IF appends[k].n = 0
        THEN /\ k \notin DOMAIN history
             /\ recent_context(history, k, 10).null
        ELSE /\ k \in DOMAIN history
             /\ Len(history[k]) <= 10
             /\ history[k] = LastTen(appends[k].n)
             /\ recent_context(history, k, 10) =
                    [null |-> FALSE, turns |-> LastTen(appends[k].n)]

\* one key cleared and with nothing since, the other cleared and with
\* twelve turns appended since
C17_Witness ==
    \E k1, k2 \in StoreKeys :
        /\ k1 # k2
        /\ appends[k1] = [n |-> 0, cleared |-> TRUE]
        /\ k1 \notin DOMAIN history
        /\ appends[k2] = [n |-> 12, cleared |-> TRUE]
        /\ history[k2] = <<3, 4, 5, 6, 7, 8, 9, 10, 11, 12>>

(***************************************************************************)
(* Requests handled at the same time.                                      *)
(***************************************************************************)
AllDone ==
    /\ DOMAIN threads = ThreadIds
    /\ \A t \in ThreadIds : threads[t].pc = "done"

SameKey == ThreadKey(1) = ThreadKey(2)

\* a message handled from start to end with nothing in between
Handle(sessions, message) ==
    session_effect(Route(message.text), sessions,
                   session_key(message.chat_id, message.user_id),
                   session_lookup(Route(message.text), sessions,
                                  session_key(message.chat_id, message.user_id)))

\* the table and the replies of each request
Outcome == [sessions |-> exam_sessions, sent |-> [t \in ThreadIds |-> threads[t].sent]]

\* the same when request `first` is handled to its end before the other starts
Sequential(first, second) ==
    LET r1 == Handle(started, threads[first].message)
        r2 == Handle(r1.sessions, threads[second].message)
    IN  [sessions |-> r2.sessions,
         sent |-> [t \in ThreadIds |-> IF t = first THEN r1.sent ELSE r2.sent]]

InlineCreate(obs) ==
    /\ obs.chat_id # None /\ obs.text # <<>>
    /\ \E i \in 1..Len(SpecCommands) :
           SpecCommands[i].name = "create" /\ Matches(obs.text, i)
    /\ Len(ArgTokens(obs.text)) >= 3

\* the replies that end an inline /create
OutcomeReplies ==
    {"gen_failed", "pdf_failed", "pdf_sent", "text_fallback", "exam_error", "create_error"}

(* C21: an inline /create sends one progress message and then exactly one  *)
(* outcome message: generation failed, PDF failed, success (only after the *)
(* document was delivered), text fallback (only after the delivery         *)
(* failed) or the generic error reply.                                     *)
C21_ProgressThenOneOutcome ==
    InlineCreate(last) =>
        /\ Len(last.sent) = 2
        /\ last.sent[1].kind = "create_progress"
        /\ last.sent[2].kind \in OutcomeReplies
        /\ last.sent[2].kind = "pdf_sent" => last.doc_vals = <<TRUE>>
        /\ last.sent[2].kind = "text_fallback" => last.doc_vals = <<FALSE>>

====
